---- MODULE Spec2Model ----
(***************************************************************************)
(* A model of tarski/syntax/sorts.py: Sort, Interval and the hierarchy     *)
(* functions parents, children and inclusion_closure.                      *)
(*                                                                         *)
(* A sort is represented by its name (Sort.__eq__ and __hash__ go by name  *)
(* within one language).  A Python value is a record                       *)
(*   [t, w, h, str]   t : "int" | "float" | "str" | "const" | "None"       *)
(* an int is w; a float is w + h/2 with w its floor and h in {0, 1}; a str *)
(* is its text; a "const" is an object whose .symbol is the str of its     *)
(* text.  The outcome of a call is a record [err, v, names, list]: err is  *)
(* "none" and the call returned the value v (or the set of sorts names, or *)
(* the list of sorts list), or err is the name of the exception raised.    *)
(***************************************************************************)
EXTENDS Integers, Sequences, FiniteSets, TLC

VARIABLES
    sort_hierarchy,   \* language.sort_hierarchy: sequence of <<childName, parentName>>
    domain,           \* Sort._domain of every sort
    lower_bound,      \* Interval.lower_bound of every sort (None when unset)
    upper_bound,      \* Interval.upper_bound of every sort (None when unset)
    encode,           \* Interval.encode of every sort: "int" | "float"
    call,             \* the call in progress or last made: [op, self, x, x2, raises_exceptions]
    ret,              \* the outcome of the last finished call
    pc,               \* "idle" | "loop" | "done"
    y,                \* Interval.contains: the encoded value
    z,                \* Interval.contains: the outcome of the last p.cast(x)
    p,                \* Interval.contains: the ancestor last popped
    relevant_supers,  \* Interval.contains: the worklist
    closure,          \* inclusion_closure: the result set
    frontier          \* inclusion_closure: the worklist

vars == <<sort_hierarchy, domain, lower_bound, upper_bound, encode, call, ret, pc,
          y, z, p, relevant_supers, closure, frontier>>

-----------------------------------------------------------------------------
(* Bounds of the model *)

MaxEdges == 2
MaxClosureEdges == 4

-----------------------------------------------------------------------------
(* Python values *)

None == [t |-> "None", w |-> 0, h |-> 0, str |-> ""]
IntV(n) == [t |-> "int", w |-> n, h |-> 0, str |-> ""]
FloatV(n, half) == [t |-> "float", w |-> n, h |-> half, str |-> ""]
StrV(text) == [t |-> "str", w |-> 0, h |-> 0, str |-> text]
ConstV(text) == [t |-> "const", w |-> 0, h |-> 0, str |-> text]
BoolV(b) == [t |-> "bool", w |-> IF b THEN 1 ELSE 0, h |-> 0, str |-> ""]

Ok(v) == [err |-> "none", v |-> v, names |-> {}, list |-> <<>>]
OkSet(ns) == [err |-> "none", v |-> None, names |-> ns, list |-> <<>>]
OkList(ns) == [err |-> "none", v |-> None, names |-> {}, list |-> ns]
Raise(e) == [err |-> e, v |-> None, names |-> {}, list |-> <<>>]
Call(op, n, x, x2, r) == [op |-> op, self |-> n, x |-> x, x2 |-> x2, raises_exceptions |-> r]
NoCall == Call("none", "", None, None, FALSE)

IsNum(v) == v.t \in {"int", "float"}

\* Python ==: numbers compare by value whatever their type, the rest structurally
PyEq(a, b) == IF IsNum(a) /\ IsNum(b) THEN a.w = b.w /\ a.h = b.h ELSE a = b

\* Python <= on numbers
PyLeq(a, b) == a.w < b.w \/ (a.w = b.w /\ a.h <= b.h)

\* x in a_set, by Python equality
PyIn(v, set) == \E e \in set : PyEq(v, e)

\* int(a_float): truncation toward zero
Trunc(v) == IF v.w >= 0 \/ v.h = 0 THEN v.w ELSE v.w + 1

\* the numerals among the strings of the model, and the numbers they spell
IntNumerals == {"5", "20"}
FloatNumerals == {"5.5"}
SpelledInt(text) == CASE text = "5" -> 5 [] text = "20" -> 20
SpelledFloat(text) == CASE text = "5.5" -> FloatV(5, 1)

\* int(x): a float is truncated; a str must spell an integer (ValueError otherwise);
\* an object that is no number and no str is a TypeError
int_encode_fn(x) ==
    CASE x.t = "int" -> Ok(x)
      [] x.t = "float" -> Ok(IntV(Trunc(x)))
      [] x.t = "str" -> IF x.str \in IntNumerals THEN Ok(IntV(SpelledInt(x.str)))
                        ELSE Raise("ValueError")
      [] OTHER -> Raise("TypeError")

\* float(x)
float_encode_fn(x) ==
    CASE x.t = "int" -> Ok(FloatV(x.w, 0))
      [] x.t = "float" -> Ok(x)
      [] x.t = "str" -> IF x.str \in IntNumerals THEN Ok(FloatV(SpelledInt(x.str), 0))
                        ELSE IF x.str \in FloatNumerals THEN Ok(SpelledFloat(x.str))
                        ELSE Raise("ValueError")
      [] OTHER -> Raise("TypeError")

-----------------------------------------------------------------------------
(* The sorts of the language *)

IntervalNames == {"Integer", "SmallInt", "Ratio"}
SortNames == {"object", "block"}
Names == IntervalNames \cup SortNames

IsInterval(n) == n \in IntervalNames

-----------------------------------------------------------------------------
(* Hierarchy operations *)

\* parents(s): the rhs of every edge whose lhs is s.name, in edge-list order
ParentsOf(h, n) ==
    LET es == SelectSeq(h, LAMBDA e : e[1] = n)
    IN  [i \in 1..Len(es) |-> es[i][2]]

parents(n) == ParentsOf(sort_hierarchy, n)

Range(f) == {f[i] : i \in DOMAIN f}

\* The values every specification gives to the variables it does not use
NoLocals ==
    /\ y = None /\ z = Ok(None) /\ p = "" /\ relevant_supers = {}
    /\ closure = {} /\ frontier = {}

NoBounds == [n \in Names |-> None]
NoDomains == [n \in Names |-> {}]
IntEncoders == [n \in Names |-> "int"]

-----------------------------------------------------------------------------
(* Edge lists *)

NameOrder == <<"Integer", "SmallInt", "Ratio", "object", "block">>
Rank(n) == CHOOSE i \in 1..Len(NameOrder) : NameOrder[i] = n
EdgeBefore(e, f) == Rank(e[1]) < Rank(f[1]) \/ (e[1] = f[1] /\ Rank(e[2]) < Rank(f[2]))

\* the edges of a set, listed in NameOrder
RECURSIVE ListOf(_)
ListOf(es) ==
    IF es = {} THEN <<>>
    ELSE LET first == CHOOSE e \in es : \A f \in es \ {e} : EdgeBefore(e, f)
         IN  <<first>> \o ListOf(es \ {first})

\* every edge list of at most k distinct edges over the names ns, listed in NameOrder
EdgeLists(ns, k) == {ListOf(es) : es \in {c \in SUBSET (ns \X ns) : Cardinality(c) <= k}}

\* every edge list of at most k edges over the names ns, in any order, repeats included
EdgeSeqs(ns, k) == UNION {[1..len -> ns \X ns] : len \in 0..k}

-----------------------------------------------------------------------------
(* inclusion_closure *)

ClosureNames == {"Integer", "SmallInt", "object", "block"}

\* Expand with a visited check: a parent already in the closure is not put back on
\* the frontier
ExpandUnvisited(cl, fr, n) == (fr \ {n}) \cup (Range(parents(n)) \ (cl \cup {n}))

\* Expand stopping after the first parent
ExpandFirstParent(cl, fr, n) ==
    (fr \ {n}) \cup (IF Len(parents(n)) = 0 THEN {} ELSE {parents(n)[1]})

\* the frontier after n was popped from fr and its parents added; the closure cl
\* is not consulted
Expand(cl, fr, n) == (fr \ {n}) \cup Range(parents(n))

\* closure = set(); frontier = {s}.  inclusion_closure changes nothing of the
\* sorts, so one call is followed from each hierarchy.
InclusionClosureCall(n) ==
    /\ pc = "idle"
    /\ call' = Call("inclusion_closure", n, None, None, FALSE)
    /\ closure' = {}
    /\ frontier' = {n}
    /\ pc' = "loop"
    /\ UNCHANGED <<sort_hierarchy, domain, lower_bound, upper_bound, encode, ret,
                   y, z, p, relevant_supers>>

\* one iteration of the while loop: frontier.pop() takes any element
InclusionClosureStep ==
    /\ pc = "loop" /\ call.op = "inclusion_closure"
    /\ frontier # {}
    /\ \E n \in frontier :
          /\ closure' = closure \cup {n}
          /\ frontier' = Expand(closure, frontier, n)
    /\ UNCHANGED <<sort_hierarchy, domain, lower_bound, upper_bound, encode, call, ret, pc,
                   y, z, p, relevant_supers>>

\* the loop ends: return closure
InclusionClosureReturn ==
    /\ pc = "loop" /\ call.op = "inclusion_closure"
    /\ frontier = {}
    /\ ret' = OkSet(closure)
    /\ pc' = "done"
    /\ UNCHANGED <<sort_hierarchy, domain, lower_bound, upper_bound, encode, call,
                   y, z, p, relevant_supers, closure, frontier>>

\* inclusion_closure as a function, popping the frontier in one fixed order
RECURSIVE Worklist(_, _)
Worklist(cl, fr) ==
    IF fr = {} THEN cl
    ELSE LET n == CHOOSE e \in fr : TRUE
         IN  Worklist(cl \cup {n}, Expand(cl, fr, n))

inclusion_closure(n) == Worklist({}, {n})

InitClosure ==
    /\ sort_hierarchy \in EdgeLists(ClosureNames, MaxClosureEdges)
    /\ domain = NoDomains /\ lower_bound = NoBounds /\ upper_bound = NoBounds
    /\ encode = IntEncoders
    /\ call = NoCall /\ ret = Ok(None) /\ pc = "idle"
    /\ NoLocals

NextClosure ==
    \/ \E n \in ClosureNames : InclusionClosureCall(n)
    \/ InclusionClosureStep
    \/ InclusionClosureReturn

\* a call that has started runs on: the interpreter executes the loop
SpecClosure ==
    InitClosure /\ [][NextClosure]_vars /\ WF_vars(InclusionClosureStep \/ InclusionClosureReturn)

\* the sorts reachable from the sorts ns through the parents relation, ns included
RECURSIVE ReachIn(_, _)
ReachIn(ns, k) ==
    IF k = 0 THEN ns
    ELSE ReachIn(ns \cup UNION {Range(parents(n)) : n \in ns}, k - 1)

Reach(ns) == ReachIn(ns, Cardinality(Names))
StrictAncestors(n) == Reach(Range(parents(n)))
Acyclic == \A n \in Names : n \notin StrictAncestors(n)
CycleReachable(n) == \E c \in Reach({n}) : c \in StrictAncestors(c)
ReturnedFrom(op) == pc = "done" /\ call.op = op

\* C4: over an acyclic hierarchy, whatever the order of the pops, inclusion_closure(S)
\* returns a finite set that holds S, is S together with the closures of the direct
\* parents of S, and is exactly the set of sorts reachable from S through parents.
ClosureWellFormed ==
    (ReturnedFrom("inclusion_closure") /\ Acyclic) =>
        /\ call.self \in ret.names
        /\ IsFiniteSet(ret.names)
        /\ ret.names = {call.self} \cup UNION {inclusion_closure(n) : n \in Range(parents(call.self))}
        /\ ret.names = Reach({call.self})

\* a closure over a diamond: two parents that share an ancestor
ClosureOverDiamond ==
    /\ ReturnedFrom("inclusion_closure") /\ Acyclic
    /\ Len(parents(call.self)) = 2
    /\ parents(call.self)[1] # parents(call.self)[2]
    /\ StrictAncestors(parents(call.self)[1]) \cap StrictAncestors(parents(call.self)[2]) # {}
    /\ Cardinality(ret.names) = 4

\* C9: the frontier loop of inclusion_closure(S) ends when no cycle can be reached
\* from S through parents, and never ends when one can, whatever the order of the pops.
WorklistTermination ==
    /\ []((pc = "loop" /\ ~CycleReachable(call.self)) => <>(pc = "done"))
    /\ []((call.op = "inclusion_closure" /\ CycleReachable(call.self)) => pc # "done")

\* the loop has put a sort that is already in the closure back on the frontier
VisitedSortRequeued ==
    /\ pc = "loop" /\ call.op = "inclusion_closure"
    /\ CycleReachable(call.self)
    /\ frontier \cap closure # {}
    /\ Cardinality(closure) >= 2

-----------------------------------------------------------------------------
(* parents and children *)

\* Sort.__eq__(self, other): other.name is read, which only a Sort has
SortEq(n, other) ==
    IF other.t = "sort" THEN Ok(BoolV(n = other.str)) ELSE Raise("AttributeError")

\* children(s): the scan compares the rhs of each edge, a name, with the Sort s,
\* which Python settles by Sort.__eq__(s, rhs)
RECURSIVE ChildrenOf(_, _)
ChildrenOf(h, n) ==
    IF h = <<>> THEN OkList(<<>>)
    ELSE LET eq == SortEq(n, StrV(h[1][2]))
             rest == ChildrenOf(Tail(h), n)
         IN  IF eq.err # "none" THEN Raise(eq.err)
             ELSE IF rest.err # "none" THEN rest
             ELSE IF eq.v = BoolV(TRUE) THEN OkList(<<h[1][1]>> \o rest.list)
             ELSE rest

children(n) == ChildrenOf(sort_hierarchy, n)

ParentsCall(n) ==
    /\ pc \in {"idle", "done"}
    /\ call' = Call("parents", n, None, None, FALSE)
    /\ ret' = OkList(parents(n))
    /\ pc' = "done"
    /\ UNCHANGED <<sort_hierarchy, domain, lower_bound, upper_bound, encode,
                   y, z, p, relevant_supers, closure, frontier>>

ChildrenCall(n) ==
    /\ pc \in {"idle", "done"}
    /\ call' = Call("children", n, None, None, FALSE)
    /\ ret' = children(n)
    /\ pc' = "done"
    /\ UNCHANGED <<sort_hierarchy, domain, lower_bound, upper_bound, encode,
                   y, z, p, relevant_supers, closure, frontier>>

InitHierarchy ==
    /\ sort_hierarchy \in EdgeSeqs(ClosureNames, MaxEdges)
    /\ domain = NoDomains /\ lower_bound = NoBounds /\ upper_bound = NoBounds
    /\ encode = IntEncoders
    /\ call = NoCall /\ ret = Ok(None) /\ pc = "idle"
    /\ NoLocals

NextHierarchy ==
    \/ \E n \in ClosureNames : ParentsCall(n)
    \/ \E n \in ClosureNames : ChildrenCall(n)

SpecHierarchy == InitHierarchy /\ [][NextHierarchy]_vars

\* C10: children(P) returns normally, C is among children(P) exactly when P is among
\* parents(C), and parents(C) lists the parents of C in edge-list order.
ParentsChildrenConverse ==
    /\ ReturnedFrom("children") =>
          /\ ret.err = "none"
          /\ \A c \in Names : c \in Range(ret.list) <=> call.self \in Range(parents(c))
    /\ ReturnedFrom("parents") =>
          /\ ret.err = "none"
          /\ \A i, j \in 1..Len(ret.list) :
                i < j => \E k, l \in 1..Len(sort_hierarchy) :
                            /\ k < l
                            /\ sort_hierarchy[k] = <<call.self, ret.list[i]>>
                            /\ sort_hierarchy[l] = <<call.self, ret.list[j]>>

-----------------------------------------------------------------------------
(* Interval: construction, bounds and cast *)

IntegerLower == -2147483647
IntegerUpper == 2147483647

\* the values given as bounds and as arguments
BoundValues == {IntV(0), IntV(10), FloatV(2, 1)}
NumberValues == {IntV(0), IntV(5), IntV(10), IntV(11), IntV(20), FloatV(5, 0), FloatV(5, 1)}
StringValues == {StrV("5"), StrV("5.5"), StrV("name"), StrV("lower_bound"),
                 StrV("upper_bound"), StrV("abc")}
ConstantValues == {ConstV("c1"), ConstV("5")}

\* self.encode(x)
Encode(n, x) == IF encode[n] = "int" THEN int_encode_fn(x) ELSE float_encode_fn(x)

\* is_within_bounds with the upper bound excluded
IsWithinBoundsStrict(n, v) ==
    IF lower_bound[n] = None \/ upper_bound[n] = None THEN Raise("SemanticError")
    ELSE Ok(BoolV(PyLeq(lower_bound[n], v) /\ PyLeq(v, upper_bound[n]) /\ ~PyEq(v, upper_bound[n])))

\* Interval.is_within_bounds(x)
IsWithinBounds(n, v) ==
    IF lower_bound[n] = None \/ upper_bound[n] = None THEN Raise("SemanticError")
    ELSE Ok(BoolV(PyLeq(lower_bound[n], v) /\ PyLeq(v, upper_bound[n])))

\* getattr(self, text) on an Interval, for the strings of the model: name is the
\* property of Sort, lower_bound and upper_bound are set by __init__
GetAttr(n, text) ==
    CASE text = "name" -> Ok(StrV(n))
      [] text = "lower_bound" -> Ok(lower_bound[n])
      [] text = "upper_bound" -> Ok(upper_bound[n])
      [] OTHER -> Raise("AttributeError")

\* Interval.cast(x)
IntervalCast(n, x) ==
    IF x.t = "str" /\ GetAttr(n, x.str).err = "none" THEN GetAttr(n, x.str)
    ELSE LET e == Encode(n, x)
         IN  IF e.err # "none" THEN e
             ELSE LET within == IsWithinBounds(n, e.v)
                  IN  IF within.err # "none" THEN within
                      ELSE IF within.v = BoolV(FALSE) THEN Raise("ValueError")
                      ELSE e

\* Interval.set_bounds(lower_bound, upper_bound)
SetBoundsCall(n, lo, hi) ==
    /\ pc \in {"idle", "done"}
    /\ call' = Call("set_bounds", n, lo, hi, FALSE)
    /\ lower_bound' = [lower_bound EXCEPT ![n] = lo]
    /\ upper_bound' = [upper_bound EXCEPT ![n] = hi]
    /\ ret' = Ok(None)
    /\ pc' = "done"
    /\ UNCHANGED <<sort_hierarchy, domain, encode, y, z, p, relevant_supers, closure, frontier>>

IsWithinBoundsCall(n, v) ==
    /\ pc \in {"idle", "done"}
    /\ call' = Call("is_within_bounds", n, v, None, FALSE)
    /\ ret' = IsWithinBounds(n, v)
    /\ pc' = "done"
    /\ UNCHANGED <<sort_hierarchy, domain, lower_bound, upper_bound, encode,
                   y, z, p, relevant_supers, closure, frontier>>

CastCall(n, x) ==
    /\ pc \in {"idle", "done"}
    /\ call' = Call("cast", n, x, None, FALSE)
    /\ ret' = IntervalCast(n, x)
    /\ pc' = "done"
    /\ UNCHANGED <<sort_hierarchy, domain, lower_bound, upper_bound, encode,
                   y, z, p, relevant_supers, closure, frontier>>

\* Interval.__init__ with the optional bounds given or left out; build_the_integers
InitBounds ==
    /\ sort_hierarchy = <<>>
    /\ domain = NoDomains
    /\ \E lo, hi \in BoundValues \cup {None} :
          /\ lower_bound = [n \in Names |-> CASE n = "Integer" -> IntV(IntegerLower)
                                              [] n = "SmallInt" -> lo
                                              [] OTHER -> None]
          /\ upper_bound = [n \in Names |-> CASE n = "Integer" -> IntV(IntegerUpper)
                                              [] n = "SmallInt" -> hi
                                              [] OTHER -> None]
    /\ encode \in {[n \in Names |-> IF n = "SmallInt" THEN e ELSE "int"] : e \in {"int", "float"}}
    /\ call = NoCall /\ ret = Ok(None) /\ pc = "idle"
    /\ NoLocals

\* the intervals the calls are made on
BoundsNames == {"Integer", "SmallInt"}

NextBounds ==
    \/ \E lo, hi \in BoundValues : SetBoundsCall("SmallInt", lo, hi)
    \/ \E n \in BoundsNames, v \in NumberValues : IsWithinBoundsCall(n, v)
    \/ \E n \in BoundsNames, x \in NumberValues \cup StringValues \cup ConstantValues : CastCall(n, x)
    \/ \E n \in BoundsNames : CastCall(n, ret.v)

SpecBounds == InitBounds /\ [][NextBounds]_vars

BothBoundsSet(n) == lower_bound[n] # None /\ upper_bound[n] # None

\* C6: is_within_bounds(x) changes nothing; it fails with an error when a bound is
\* unset, and otherwise returns lower_bound <= x <= upper_bound, the bounds being
\* those set_bounds stored: with [0, 10], 5 is within the bounds and 11 is not.
BoundsPrecondition ==
    [][/\ (\E n \in Names, v \in NumberValues : IsWithinBoundsCall(n, v)) =>
            /\ UNCHANGED <<sort_hierarchy, domain, lower_bound, upper_bound, encode>>
            /\ ~BothBoundsSet(call'.self) => ret'.err # "none"
            /\ BothBoundsSet(call'.self) =>
                  /\ ret'.err = "none"
                  /\ ret'.v \in {BoolV(TRUE), BoolV(FALSE)}
                  /\ ret'.v = BoolV(TRUE) <=>
                        /\ PyLeq(lower_bound[call'.self], call'.x)
                        /\ PyLeq(call'.x, upper_bound[call'.self])
            /\ (lower_bound[call'.self] = IntV(0) /\ upper_bound[call'.self] = IntV(10)) =>
                  /\ call'.x = IntV(5) => ret' = Ok(BoolV(TRUE))
                  /\ call'.x = IntV(11) => ret' = Ok(BoolV(FALSE))
       /\ (\E n \in Names, lo, hi \in BoundValues : SetBoundsCall(n, lo, hi)) =>
            /\ lower_bound'[call'.self] = call'.x
            /\ upper_bound'[call'.self] = call'.x2
      ]_vars

\* 11 was found outside the bounds [0, 10] that set_bounds stored
OutsideSetBounds ==
    /\ ReturnedFrom("is_within_bounds")
    /\ lower_bound[call.self] = IntV(0) /\ upper_bound[call.self] = IntV(10)
    /\ call.self = "SmallInt" /\ call.x = IntV(11)
    /\ ret = Ok(BoolV(FALSE))

\* C7: of every Interval, both bounds are unset, or both are set and
\* lower_bound <= upper_bound.
BoundsInvariant ==
    \A n \in IntervalNames :
        \/ lower_bound[n] = None /\ upper_bound[n] = None
        \/ BothBoundsSet(n) /\ PyLeq(lower_bound[n], upper_bound[n])

\* C5: when I.cast(x) succeeds on an Interval with both bounds set, I.cast of its
\* result succeeds too and returns the same value.
CastIdempotent ==
    [][(/\ \E n \in Names : CastCall(n, ret.v)
        /\ call.op = "cast" /\ call.self = call'.self
        /\ ret.err = "none"
        /\ BothBoundsSet(call.self))
       => (ret'.err = "none" /\ PyEq(ret'.v, ret.v))]_vars

-----------------------------------------------------------------------------
(* Sort: contains, cast and extend *)

\* x.symbol, which only a constant has
Symbol(x) == IF x.t = "const" THEN Ok(StrV(x.str)) ELSE Raise("AttributeError")

\* Sort.contains(x)
SortContains(n, x) ==
    IF Symbol(x).err = "none" THEN Ok(BoolV(PyIn(Symbol(x).v, domain[n])))
    ELSE Ok(BoolV(PyIn(x, domain[n])))

\* Sort.cast(x)
SortCast(n, x) ==
    IF Symbol(x).err = "none"
    THEN (IF PyIn(Symbol(x).v, domain[n]) THEN Ok(Symbol(x).v) ELSE Ok(None))
    ELSE (IF PyIn(x, domain[n]) THEN Ok(x) ELSE Ok(None))

\* p.cast(x), by the class of p
Cast(n, x) == IF IsInterval(n) THEN IntervalCast(n, x) ELSE SortCast(n, x)

\* Sort.extend(constant) and Interval.extend(x), by the class of the sort: a Sort adds
\* the symbol to its domain and extends each of its parents in turn; an Interval
\* does nothing
RECURSIVE Extend(_, _, _), ExtendEach(_, _, _)
Extend(dom, n, c) ==
    IF IsInterval(n) THEN dom
    ELSE ExtendEach([dom EXCEPT ![n] = @ \cup {Symbol(c).v}], parents(n), c)

ExtendEach(dom, ns, c) ==
    IF ns = <<>> THEN dom ELSE ExtendEach(Extend(dom, ns[1], c), Tail(ns), c)

ExtendCall(n, c) ==
    /\ pc \in {"idle", "done"}
    /\ call' = Call("extend", n, c, None, FALSE)
    /\ domain' = Extend(domain, n, c)
    /\ ret' = Ok(None)
    /\ pc' = "done"
    /\ UNCHANGED <<sort_hierarchy, lower_bound, upper_bound, encode,
                   y, z, p, relevant_supers, closure, frontier>>

SortContainsCall(n, x) ==
    /\ pc \in {"idle", "done"}
    /\ call' = Call("contains", n, x, None, FALSE)
    /\ ret' = SortContains(n, x)
    /\ pc' = "done"
    /\ UNCHANGED <<sort_hierarchy, domain, lower_bound, upper_bound, encode,
                   y, z, p, relevant_supers, closure, frontier>>

-----------------------------------------------------------------------------
(* Interval.contains *)

\* a disagreement answered by a plain False in both modes
MismatchOutcomeFalse(r) == Ok(BoolV(FALSE))

\* an ancestor cast x to a value other than y
MismatchOutcome(r) == IF r THEN Raise("SemanticError") ELSE Ok(BoolV(FALSE))

\* isinstance(raised, kind) for the exceptions of tarski.errors and ValueError: the
\* error kinds are distinct, none is a kind of another
ExceptionIsA(raised, kind) == raised = kind

\* how contains ends when self.encode(x) raises: a ValueError is caught and becomes
\* False or SemanticError, any other error leaves contains as it is
EncodeFailure(n, x, r) ==
    IF ExceptionIsA(Encode(n, x).err, "ValueError")
    THEN (IF r THEN Raise("SemanticError") ELSE Ok(BoolV(FALSE)))
    ELSE Encode(n, x)

\* y = self.encode(x), and on success relevant_supers = set(parents(self)).
\* contains changes nothing of the sorts, so one call is followed from each state
\* of the language.
IntervalContainsCall(n, x, r) ==
    /\ pc = "idle"
    /\ call' = Call("contains", n, x, None, r)
    /\ z' = Ok(None) /\ p' = ""
    /\ IF Encode(n, x).err # "none"
       THEN /\ ret' = EncodeFailure(n, x, r)
            /\ pc' = "done" /\ y' = None /\ relevant_supers' = {}
       ELSE /\ ret' = Ok(None)
            /\ pc' = "loop" /\ y' = Encode(n, x).v /\ relevant_supers' = Range(parents(n))
    /\ UNCHANGED <<sort_hierarchy, domain, lower_bound, upper_bound, encode, closure, frontier>>

\* one iteration of the while loop: relevant_supers.pop() takes any element
IntervalContainsVisit ==
    /\ pc = "loop" /\ call.op = "contains"
    /\ relevant_supers # {}
    /\ \E q \in relevant_supers :
          LET c == Cast(q, call.x)
          IN  /\ p' = q
              /\ z' = c
              /\ IF c.err # "none" /\ ExceptionIsA(c.err, "ValueError")
                 THEN /\ ret' = Raise("LanguageError") /\ pc' = "done"
                      /\ relevant_supers' = relevant_supers \ {q}
                 ELSE IF c.err # "none"
                 THEN /\ ret' = c /\ pc' = "done"
                      /\ relevant_supers' = relevant_supers \ {q}
                 ELSE IF c.v # None /\ ~PyEq(y, c.v)
                 THEN /\ ret' = MismatchOutcome(call.raises_exceptions) /\ pc' = "done"
                      /\ relevant_supers' = relevant_supers \ {q}
                 ELSE /\ relevant_supers' = (relevant_supers \ {q}) \cup Range(parents(q))
                      /\ UNCHANGED <<ret, pc>>
    /\ UNCHANGED <<sort_hierarchy, domain, lower_bound, upper_bound, encode, call, y,
                   closure, frontier>>

\* the loop ends: return self.is_within_bounds(y)
IntervalContainsReturn ==
    /\ pc = "loop" /\ call.op = "contains"
    /\ relevant_supers = {}
    /\ ret' = IsWithinBounds(call.self, y)
    /\ pc' = "done"
    /\ UNCHANGED <<sort_hierarchy, domain, lower_bound, upper_bound, encode, call,
                   y, z, p, relevant_supers, closure, frontier>>

ContainsNames == {"Integer", "SmallInt", "Ratio", "object"}
ContainsValues == {IntV(5), IntV(20), FloatV(5, 1), StrV("5"), StrV("5.5"), StrV("abc")}

\* SmallInt = Interval(int_encode_fn, 0, 10); Ratio = Interval(float_encode_fn) with
\* its bounds given or left out; object has been extended or not
InitContains ==
    /\ sort_hierarchy \in EdgeSeqs(ContainsNames, MaxEdges)
    /\ domain \in {[NoDomains EXCEPT !["object"] = d] : d \in {{}, {StrV("5")}}}
    /\ \E lo, hi \in {None, IntV(10)} :
          /\ lo = None <=> hi = None
          /\ lower_bound = [n \in Names |-> CASE n = "Integer" -> IntV(IntegerLower)
                                              [] n = "SmallInt" -> IntV(0)
                                              [] n = "Ratio" -> (IF lo = None THEN None ELSE IntV(0))
                                              [] OTHER -> None]
          /\ upper_bound = [n \in Names |-> CASE n = "Integer" -> IntV(IntegerUpper)
                                              [] n = "SmallInt" -> IntV(10)
                                              [] n = "Ratio" -> hi
                                              [] OTHER -> None]
    /\ encode = [n \in Names |-> IF n = "Ratio" THEN "float" ELSE "int"]
    /\ call = NoCall /\ ret = Ok(None) /\ pc = "idle"
    /\ NoLocals

NextContains ==
    \/ \E n \in ContainsNames \cap IntervalNames, x \in ContainsValues, r \in BOOLEAN :
          IntervalContainsCall(n, x, r)
    \/ IntervalContainsVisit
    \/ IntervalContainsReturn

SpecContains == InitContains /\ [][NextContains]_vars

\* an ancestor was visited and cast x to a defined value other than y
AncestorDisagrees ==
    /\ call.op = "contains" /\ p # ""
    /\ z.err = "none" /\ z.v # None /\ ~PyEq(y, z.v)

\* an ancestor was visited and its cast of x failed with an error
AncestorCastFailed == call.op = "contains" /\ p # "" /\ z.err # "none"

\* C2: with SmallInt = [0, 10], int-encoded, and Integer its only ancestor,
\* SmallInt.contains(5) is true, SmallInt.contains(5.5) is false and
\* SmallInt.contains(20) is false.
DowncastSoundness ==
    (/\ ReturnedFrom("contains") /\ call.self = "SmallInt" /\ ~call.raises_exceptions
     /\ sort_hierarchy = <<<<"SmallInt", "Integer">>>>
     /\ encode["SmallInt"] = "int"
     /\ lower_bound["SmallInt"] = IntV(0) /\ upper_bound["SmallInt"] = IntV(10))
    => /\ call.x = IntV(5) => ret = Ok(BoolV(TRUE))
       /\ call.x \in {FloatV(5, 1), StrV("5.5")} => ret = Ok(BoolV(FALSE))
       /\ call.x = IntV(20) => ret = Ok(BoolV(FALSE))

\* C3, as stated: when a visited ancestor casts x to a defined value other than y,
\* contains raises LanguageError in both modes.
DisagreementRaisesLanguageError ==
    AncestorDisagrees => (pc = "done" /\ ret = Raise("LanguageError"))

\* C3, amended: when a visited ancestor casts x to a defined value other than y,
\* contains ends there, returning False in boolean mode and raising SemanticError
\* in raise mode.
DisagreementRejects ==
    AncestorDisagrees =>
        /\ pc = "done"
        /\ ~call.raises_exceptions => ret = Ok(BoolV(FALSE))
        /\ call.raises_exceptions => ret = Raise("SemanticError")

\* in raise mode, an ancestor that is no direct parent cast x to another value
GrandparentDisagrees ==
    /\ AncestorDisagrees
    /\ call.raises_exceptions
    /\ p \notin Range(parents(call.self))
    /\ ret = Raise("SemanticError")

\* C8: when the cast of a visited ancestor fails with an error, contains raises
\* LanguageError, whatever the mode and whatever the failure.
AncestorCastFailureEscalates ==
    AncestorCastFailed =>
        (pc = "done" /\ ret.err # "none" /\ ExceptionIsA(ret.err, "LanguageError"))

-----------------------------------------------------------------------------
(* extend over a hierarchy of Sorts and Intervals *)

\* an acyclic hierarchy over all the sorts; no constant has been added yet
InitExtend ==
    /\ sort_hierarchy \in EdgeSeqs(Names, MaxEdges)
    /\ Acyclic
    /\ domain = NoDomains
    /\ lower_bound = [n \in Names |-> CASE n = "Integer" -> IntV(IntegerLower)
                                        [] n = "SmallInt" -> IntV(0)
                                        [] OTHER -> None]
    /\ upper_bound = [n \in Names |-> CASE n = "Integer" -> IntV(IntegerUpper)
                                        [] n = "SmallInt" -> IntV(10)
                                        [] OTHER -> None]
    /\ encode = [n \in Names |-> IF n = "Ratio" THEN "float" ELSE "int"]
    /\ call = NoCall /\ ret = Ok(None) /\ pc = "idle"
    /\ NoLocals

NextExtend ==
    \/ \E n \in Names, c \in ConstantValues : ExtendCall(n, c)
    \/ \E n \in SortNames, x \in ConstantValues \cup {StrV("c1")} : SortContainsCall(n, x)

SpecExtend == InitExtend /\ [][NextExtend]_vars

\* what A.contains(c) gives for a constant c: on an Interval, encode(c) fails and
\* decides the call
ContainsConstant(n, c) ==
    IF IsInterval(n) THEN EncodeFailure(n, c, FALSE) ELSE SortContains(n, c)

\* C1: over an acyclic hierarchy, once S.extend(c) has returned, S.contains(c) is true
\* and A.contains(c) is true of every ancestor A of S, whatever Sorts and Intervals
\* lie between them.
UpwardPropagation ==
    (ReturnedFrom("extend") /\ Acyclic) =>
        \A a \in Reach({call.self}) : ContainsConstant(a, call.x) = Ok(BoolV(TRUE))

\* C1 among Sorts alone: the ancestors that are Sorts and that an Interval separates
\* from S are to hold c as well.
UpwardPropagationToSorts ==
    (ReturnedFrom("extend") /\ Acyclic /\ ~IsInterval(call.self)) =>
        \A a \in Reach({call.self}) \ IntervalNames : SortContains(a, call.x) = Ok(BoolV(TRUE))

====
